---- MODULE Spec2Model ----
(***************************************************************************)
(* A model of scripts/xml_generator.py: the XMLGenerator class, which      *)
(* picks a root element definition from an XSD schema, walks it            *)
(* recursively under a size budget (_create_element), fills leaves with    *)
(* random typed values, writes the document and validates it.              *)
(*                                                                         *)
(* Text is modelled as a sequence of tokens: one-character strings for     *)
(* generated content, words and ":" for type tags.  Element names are      *)
(* modelled by their length, the only thing the walker reads of them       *)
(* (XMLSchema() at line 24 rejects a name holding ':', so the prefix       *)
(* split at lines 116-117 never fires on a constructed generator).         *)
(***************************************************************************)
EXTENDS Integers, Sequences, FiniteSets, TLC

VARIABLES
    pc,            \* where the program is: "new" | "ready" | "schema_error" |
                   \* "walk" | "raised" | "written" | "done"
    schema_doc,    \* the xs:element nodes of the schema, in document order
    root_element,  \* self.root_element: None or Some(element definition)
    target,        \* None or Some(target_size_bytes) of the generate() call
    tree,          \* the output tree: tree[1] is generate()'s root Element
    stack,         \* the active complex _create_element calls (innermost last)
    call,          \* None or Some(a _create_element call about to run)
    ret,           \* None or Some(what a _create_element call just returned)
    written,       \* the output file exists
    checked,       \* None or Some(how the validity check of lines 164-165 ended)
    messages       \* what generate() has printed

vars == <<pc, schema_doc, root_element, target, tree, stack, call, ret,
          written, checked, messages>>

None == <<>>
Some(x) == <<x>>

(***************************************************************************)
(* Program constants.                                                      *)
(***************************************************************************)
AVERAGE_ELEMENT_OVERHEAD == 50
DEFAULT_STRING_LENGTH == 20
DEFAULT_MIN_CHILDREN == 1
DEFAULT_MAX_CHILDREN == 5
MAX_DEPTH == 100
TAG_OVERHEAD == 5
INTEGER_MAX == 1000000
DECIMAL_MAX_CENTS == 100000000
YEAR_MIN == 1900
YEAR_MAX == 2100
DAY_MAX == 28
DOMAIN_LENGTH == 10
PATH_LENGTH == 15

(***************************************************************************)
(* Bounds of the model.                                                    *)
(***************************************************************************)
\* target sizes 0..MaxTargetSize are all tried
MaxTargetSize == 110
\* a target size large enough for a chain of calls to pass the depth ceiling
DeepTargetSize == 750
\* random.randint over a range wider than this is sampled at its two ends
ExhaustiveRange == 5
\* the schemas tried hold at most this many xs:element nodes
MaxSchemaElements == 2

Min(a, b) == IF a <= b THEN a ELSE b

RECURSIVE Sum(_)
Sum(s) == IF s = <<>> THEN 0 ELSE Head(s) + Sum(Tail(s))

(***************************************************************************)
(* The random source.  random.randint(a, b) draws from a..b and raises     *)
(* ValueError when the range is empty: RandInt is then the empty set.      *)
(***************************************************************************)
RandInt(a, b) ==
    IF b - a < ExhaustiveRange THEN a..b ELSE {a, b}

\* string.ascii_letters + string.digits + ' ', one representative per class
Chars == {"a", "Z", "7", " "}

\* str.lower() on one character
Lower(c) == IF c = "Z" THEN "z" ELSE c

(***************************************************************************)
(* Formatting, as str() and the format specs of the f-strings do it.       *)
(***************************************************************************)
DigitChar == <<"0", "1", "2", "3", "4", "5", "6", "7", "8", "9">>

RECURSIVE NatToStr(_)
NatToStr(n) ==
    IF n < 10 THEN <<DigitChar[n + 1]>>
    ELSE NatToStr(n \div 10) \o <<DigitChar[(n % 10) + 1]>>

\* str(n) for an int
IntToStr(n) == IF n < 0 THEN <<"-">> \o NatToStr(-n) ELSE NatToStr(n)

RECURSIVE ZeroPad(_, _)
\* f"{n:0Wd}" for n >= 0
ZeroPad(s, width) == IF Len(s) >= width THEN s ELSE ZeroPad(<<"0">> \o s, width)

\* f"{x:.2f}" for x = cents / 100
FormatCents(cents) ==
    LET a == IF cents < 0 THEN -cents ELSE cents
        body == NatToStr(a \div 100) \o <<".">> \o ZeroPad(NatToStr(a % 100), 2)
    IN  IF cents < 0 THEN <<"-">> \o body ELSE body

(***************************************************************************)
(* The value generators: each is the set of texts the method can return.   *)
(***************************************************************************)
\* _generate_string(length): `length` characters drawn from Chars (sampled
\* at the texts that repeat one character)
_generate_string(length) == {[i \in 1..length |-> c] : c \in Chars}

_generate_integer == {IntToStr(n) : n \in RandInt(-INTEGER_MAX, INTEGER_MAX)}

\* random.uniform(-1000000, 1000000), seen through its two-decimal rounding
_generate_decimal ==
    {FormatCents(c) : c \in RandInt(-DECIMAL_MAX_CENTS, DECIMAL_MAX_CENTS)}

_generate_date ==
    {ZeroPad(NatToStr(year), 4) \o <<"-">> \o ZeroPad(NatToStr(month), 2)
        \o <<"-">> \o ZeroPad(NatToStr(day), 2) :
        year \in RandInt(YEAR_MIN, YEAR_MAX), month \in RandInt(1, 12),
        day \in RandInt(1, DAY_MAX)}

_generate_datetime ==
    {date \o <<"T">> \o ZeroPad(NatToStr(hour), 2) \o <<":">>
        \o ZeroPad(NatToStr(minute), 2) \o <<":">>
        \o ZeroPad(NatToStr(second), 2) \o <<"Z">> :
        date \in _generate_date, hour \in RandInt(0, 23),
        minute \in RandInt(0, 59), second \in RandInt(0, 59)}

_generate_boolean == {<<"t", "r", "u", "e">>, <<"f", "a", "l", "s", "e">>}

_generate_uri ==
    {<<"h", "t", "t", "p", ":", "/", "/">>
        \o [i \in 1..Len(domain) |-> Lower(domain[i])]
        \o <<".", "c", "o", "m", "/">>
        \o [i \in 1..Len(path) |-> Lower(path[i])] :
        domain \in _generate_string(DOMAIN_LENGTH),
        path \in _generate_string(PATH_LENGTH)}

\* the keys of the dictionary _create_type_generators builds
TypeNames ==
    {"string", "integer", "decimal", "date", "dateTime", "boolean", "anyURI"}

\* self.type_generators[key]()
_create_type_generators(key) ==
    CASE key = "string" -> _generate_string(DEFAULT_STRING_LENGTH)
      [] key = "integer" -> _generate_integer
      [] key = "decimal" -> _generate_decimal
      [] key = "date" -> _generate_date
      [] key = "dateTime" -> _generate_datetime
      [] key = "boolean" -> _generate_boolean
      [] key = "anyURI" -> _generate_uri

\* type_name.split(':')[-1]: the tokens after the last ':'
SplitLast(type_name) ==
    LET colons == {i \in 1..Len(type_name) : type_name[i] = ":"}
    IN  IF colons = {} THEN type_name
        ELSE LET last == CHOOSE i \in colons : \A j \in colons : j <= i
             IN  SubSeq(type_name, last + 1, Len(type_name))

\* a dispatch that looks the whole type attribute up, prefix included
Dispatch_KeepsPrefix(type_name) ==
    IF Len(type_name) = 1 /\ type_name[1] \in TypeNames
    THEN type_name[1] ELSE "string"

\* the key base_type selects: its own name when registered, else "string"
\* (dict.get's default, self._generate_string)
Dispatch(type_name) ==
    LET base_type == SplitLast(type_name)
    IN  IF Len(base_type) = 1 /\ base_type[1] \in TypeNames
        THEN base_type[1] ELSE "string"

\* _generate_element_content(element): the texts it can return
_generate_element_content(element) ==
    LET type_name == IF element.type = <<>> THEN <<"string">> ELSE element.type
    IN  _create_type_generators(Dispatch(type_name))

(***************************************************************************)
(* Schemas.  An xs:element node of the schema document is a record: top    *)
(* (a child of xs:schema), name (the length of its name attribute, 0 when  *)
(* it has none) and type (its type attribute, <<>> when it has none).      *)
(***************************************************************************)
NameLengths == {1, 23, 47, 48}

TypeTags ==
    {<<"xs", ":", n>> : n \in TypeNames} \cup {<<n>> : n \in TypeNames}
    \cup {<<"xs", ":", "token">>, <<"xs", ":">>, <<"tns", ":", "xs", ":", "date">>}

\* the element definitions a generator is run on
RootDefs ==
    [top : {TRUE}, name : NameLengths, type : TypeTags \cup {<<>>}]

\* the xs:element nodes the constructor is tried on
SchemaElements ==
    {e \in [top : BOOLEAN, name : {0, 1, 23},
            type : {<<>>, <<"xs", ":", "string">>}] : e.top => e.name > 0}

RECURSIVE SeqsUpTo(_, _)
SeqsUpTo(S, n) ==
    IF n = 0 THEN {<<>>}
    ELSE LET shorter == SeqsUpTo(S, n - 1)
         IN  shorter \cup {Append(q, e) : q \in shorter, e \in S}

\* _find_root_element: the first match of //xs:element[@name], or None
_find_root_element(doc) ==
    LET root_elements == {i \in 1..Len(doc) : doc[i].name > 0}
    IN  IF root_elements /= {}
        THEN Some(doc[CHOOSE i \in root_elements : \A j \in root_elements : i <= j])
        ELSE None

\* XMLGenerator.__init__: raises ValueError when no root element is found
Construct ==
    /\ pc = "new"
    /\ root_element' = _find_root_element(schema_doc)
    /\ pc' = IF root_element' = None THEN "schema_error" ELSE "ready"
    /\ UNCHANGED <<schema_doc, target, tree, stack, call, ret, written, checked, messages>>

(***************************************************************************)
(* The walker, _create_element.  A node of the output tree records its     *)
(* parent (an index of tree, 0 for the root), its text, and for the        *)
(* properties the depth and remaining_size of the call that made it and    *)
(* whether it was made as a leaf.                                          *)
(***************************************************************************)
\* a guard that lets a budget of exactly 0 through
Guard_StrictlyNegative(remaining_size, depth) ==
    remaining_size < 0 \/ depth > MAX_DEPTH

\* a guard without the depth ceiling
Guard_NoDepthCeiling(remaining_size, depth) == remaining_size <= 0

\* a guard that tests the budget for equality with 0
Guard_ZeroOnly(remaining_size, depth) == remaining_size = 0 \/ depth > MAX_DEPTH

\* line 111: the termination guard
Guard(remaining_size, depth) == remaining_size <= 0 \/ depth > MAX_DEPTH

\* an overhead that counts the name once
ElementOverhead_OneTag(name) == name + TAG_OVERHEAD

\* lines 124 and 127: len(name) * 2 + 5
ElementOverhead(name) == name * 2 + TAG_OVERHEAD

\* a children count that is not clamped by the remaining budget
ChildrenCounts_Unclamped(remaining_size) ==
    RandInt(DEFAULT_MIN_CHILDREN, DEFAULT_MAX_CHILDREN)

\* lines 128-131: the values random.randint can give children_count
ChildrenCounts(remaining_size) ==
    RandInt(DEFAULT_MIN_CHILDREN,
            Min(DEFAULT_MAX_CHILDREN, remaining_size \div AVERAGE_ELEMENT_OVERHEAD))

\* a split over the children not yet processed
ChildBudget_RemainingSiblings(f) ==
    (f.remaining_size - f.size_used) \div (f.children_count - f.i)

\* line 137: the budget handed to the next child of frame f
ChildBudget(f) == (f.remaining_size - f.size_used) \div f.children_count

Top == stack[Len(stack)]
Pop == SubSeq(stack, 1, Len(stack) - 1)
SetTop(f) == [stack EXCEPT ![Len(stack)] = f]

Returned(c, size_used, kind) ==
    Some([size_used |-> size_used, remaining_size |-> c.remaining_size,
          depth |-> c.depth, kind |-> kind])

NewNode(c, text, leaf) ==
    [parent |-> c.parent, text |-> text, leaf |-> leaf, depth |-> c.depth,
     budget |-> c.remaining_size]

\* generate(), lines 146-154: make the root Element and start the walk
Generate(target_size_bytes) ==
    /\ pc = "ready"
    /\ target' = Some(target_size_bytes)
    /\ tree' = <<[parent |-> 0, text |-> <<>>, leaf |-> FALSE, depth |-> -1,
                  budget |-> target_size_bytes]>>
    /\ call' = Some([remaining_size |-> target_size_bytes, depth |-> 0,
                     parent |-> 1])
    /\ pc' = "walk"
    /\ UNCHANGED <<schema_doc, root_element, stack, ret, written, checked, messages>>

\* lines 111-131: the body of one call up to its loop
CreateElementEnter ==
    /\ pc = "walk"
    /\ call /= None
    /\ LET c == call[1]
           element_def == root_element[1]
           element == Len(tree) + 1
       IN  IF Guard(c.remaining_size, c.depth)
           THEN /\ ret' = Returned(c, 0, "guard")
                /\ UNCHANGED <<pc, tree, stack>>
           ELSE IF element_def.type /= <<>>
           THEN \E content \in _generate_element_content(element_def) :
                /\ tree' = Append(tree, NewNode(c, content, TRUE))
                /\ ret' = Returned(c, Len(content)
                                      + ElementOverhead(element_def.name), "leaf")
                /\ UNCHANGED <<pc, stack>>
           ELSE /\ tree' = Append(tree, NewNode(c, <<>>, FALSE))
                /\ IF ChildrenCounts(c.remaining_size) = {}
                   THEN \* random.randint raises ValueError: empty range
                        /\ pc' = "raised"
                        /\ UNCHANGED <<stack, ret>>
                   ELSE \E children_count \in ChildrenCounts(c.remaining_size) :
                        /\ stack' = Append(stack,
                              [remaining_size |-> c.remaining_size,
                               depth |-> c.depth,
                               element |-> element,
                               size_used |-> ElementOverhead(element_def.name),
                               children_count |-> children_count,
                               i |-> 0,
                               budgets |-> <<>>,
                               returns |-> <<>>])
                        /\ UNCHANGED <<pc, ret>>
    /\ call' = None
    /\ UNCHANGED <<schema_doc, root_element, target, written, checked, messages>>

\* lines 133-139: the loop makes its next recursive call
CreateElementLoop ==
    /\ pc = "walk"
    /\ call = None /\ ret = None /\ stack /= <<>>
    /\ Top.i < Top.children_count
    /\ call' = Some([remaining_size |-> ChildBudget(Top), depth |-> Top.depth + 1,
                     parent |-> Top.element])
    /\ stack' = SetTop([Top EXCEPT !.budgets = Append(@, ChildBudget(Top))])
    /\ UNCHANGED <<pc, schema_doc, root_element, target, tree, ret, written,
                   checked, messages>>

\* line 140: size_used += child_size
CreateElementChildReturn ==
    /\ pc = "walk"
    /\ ret /= None /\ stack /= <<>>
    /\ stack' = SetTop([Top EXCEPT !.size_used = @ + ret[1].size_used,
                                    !.i = @ + 1,
                                    !.returns = Append(@, ret[1].size_used)])
    /\ ret' = None
    /\ UNCHANGED <<pc, schema_doc, root_element, target, tree, call, written,
                   checked, messages>>

\* line 142: the loop is over, return size_used
CreateElementReturn ==
    /\ pc = "walk"
    /\ call = None /\ ret = None /\ stack /= <<>>
    /\ Top.i = Top.children_count
    /\ ret' = Returned(Top, Top.size_used, "complex")
    /\ stack' = Pop
    /\ UNCHANGED <<pc, schema_doc, root_element, target, tree, call, written,
                   checked, messages>>

\* lines 157-161: the walk is over; write the file and print its size
Write ==
    /\ pc = "walk"
    /\ ret /= None /\ stack = <<>>
    /\ written' = TRUE
    /\ messages' = Append(messages, "Generated XML file of size")
    /\ ret' = None
    /\ pc' = "written"
    /\ UNCHANGED <<schema_doc, root_element, target, tree, stack, call, checked>>

\* what lxml's parse and assertValid can do at lines 164-165
CheckOutcomes == {"valid", "DocumentInvalid", "Exception"}

\* a check without the catch-all handler of lines 169-170
Validate_NoCatchAll(outcome) ==
    /\ pc = "written"
    /\ checked' = Some(outcome)
    /\ IF outcome = "Exception"
       THEN pc' = "raised" /\ UNCHANGED messages
       ELSE /\ pc' = "done"
            /\ messages' = Append(messages,
                  IF outcome = "valid"
                  THEN "Generated XML is valid according to schema"
                  ELSE "Warning: Generated XML is not valid")
    /\ UNCHANGED <<schema_doc, root_element, target, tree, stack, call, ret,
                   written>>

\* lines 163-170: the validity check and its three handlers
Validate(outcome) ==
    /\ pc = "written"
    /\ checked' = Some(outcome)
    /\ messages' = Append(messages,
          CASE outcome = "valid" -> "Generated XML is valid according to schema"
            [] outcome = "DocumentInvalid" -> "Warning: Generated XML is not valid"
            [] outcome = "Exception" -> "Error validating generated XML")
    /\ pc' = "done"
    /\ UNCHANGED <<schema_doc, root_element, target, tree, stack, call, ret,
                   written>>

(***************************************************************************)
(* Specifications.                                                         *)
(***************************************************************************)
TargetSizes == (0..MaxTargetSize) \cup {199, 302, DeepTargetSize}

Blank ==
    /\ target = None /\ tree = <<>> /\ stack = <<>>
    /\ call = None /\ ret = None
    /\ written = FALSE /\ checked = None /\ messages = <<>>

\* a generator constructed on a schema with one top-level element
Init ==
    /\ pc = "ready"
    /\ \E d \in RootDefs : schema_doc = <<d>> /\ root_element = Some(d)
    /\ Blank

Next ==
    \/ \E target_size_bytes \in TargetSizes : Generate(target_size_bytes)
    \/ CreateElementEnter
    \/ CreateElementLoop
    \/ CreateElementChildReturn
    \/ CreateElementReturn
    \/ Write
    \/ \E outcome \in CheckOutcomes : Validate(outcome)

Spec == Init /\ [][Next]_vars

\* the constructor, on every schema of up to MaxSchemaElements xs:element nodes
InitSchema ==
    /\ pc = "new"
    /\ schema_doc \in SeqsUpTo(SchemaElements, MaxSchemaElements)
    /\ root_element = None
    /\ Blank

NextSchema == Construct

SpecSchema == InitSchema /\ [][NextSchema]_vars

(***************************************************************************)
(* Helpers of the properties: reading a text back.                         *)
(***************************************************************************)
IsDigits(s) == s /= <<>> /\ \A i \in 1..Len(s) : \E d \in 1..10 : DigitChar[d] = s[i]

DigitValue(c) == (CHOOSE d \in 1..10 : DigitChar[d] = c) - 1

RECURSIVE ParseNat(_)
ParseNat(s) ==
    IF Len(s) = 1 THEN DigitValue(s[1])
    ELSE 10 * ParseNat(SubSeq(s, 1, Len(s) - 1)) + DigitValue(s[Len(s)])

IsInteger(s) == IF s /= <<>> /\ s[1] = "-" THEN IsDigits(Tail(s)) ELSE IsDigits(s)
ParseInt(s) == IF s[1] = "-" THEN 0 - ParseNat(Tail(s)) ELSE ParseNat(s)

\* YYYY-MM-DD with the year, month and day in the ranges the generator keeps
IsDate(s) ==
    /\ Len(s) = 10 /\ s[5] = "-" /\ s[8] = "-"
    /\ IsDigits(SubSeq(s, 1, 4)) /\ IsDigits(SubSeq(s, 6, 7))
    /\ IsDigits(SubSeq(s, 9, 10))
    /\ ParseNat(SubSeq(s, 1, 4)) \in 1900..2100
    /\ ParseNat(SubSeq(s, 6, 7)) \in 1..12
    /\ ParseNat(SubSeq(s, 9, 10)) \in 1..28

\* the lexical form of each registered type
HasForm(key, s) ==
    CASE key = "string" -> Len(s) = 20
      [] key = "integer" ->
            IsInteger(s) /\ ParseInt(s) >= -1000000 /\ ParseInt(s) <= 1000000
      [] key = "boolean" -> s \in {<<"t", "r", "u", "e">>, <<"f", "a", "l", "s", "e">>}
      [] key = "date" -> IsDate(s)
      [] key = "dateTime" ->
            /\ Len(s) = 20 /\ IsDate(SubSeq(s, 1, 10))
            /\ s[11] = "T" /\ s[20] = "Z"
      [] key = "decimal" ->
            /\ Len(s) >= 4 /\ s[Len(s) - 2] = "."
            /\ IsDigits(SubSeq(s, Len(s) - 1, Len(s)))
            /\ IsInteger(SubSeq(s, 1, Len(s) - 3))
      [] key = "anyURI" ->
            Len(s) = 37 /\ SubSeq(s, 1, 7) = <<"h", "t", "t", "p", ":", "/", "/">>

\* the local name of a type tag: the tag itself, or what follows its prefix
LocalNameIs(tag, n) ==
    \/ tag = <<n>>
    \/ Len(tag) >= 2 /\ tag[Len(tag)] = n /\ tag[Len(tag) - 1] = ":"

\* the nodes the walker made (tree[1] is made by generate)
Made == 2..Len(tree)
Children(j) == {k \in Made : tree[k].parent = j}
RootIsComplex == root_element /= None /\ root_element[1].type = <<>>
NameOverhead == 2 * root_element[1].name + 5

(***************************************************************************)
(* The properties.                                                         *)
(***************************************************************************)

\* C1: for every target size and every schema with a top-level element,
\* generate() terminates normally: no call of the walk raises.
C1_GenerateNeverRaises == pc /= "raised"

\* C2: with target size 0 the document is the root element alone: the one
\* walker call returns 0 and adds neither a node nor text, and nothing raises.
C2_ZeroTargetRootOnly ==
    target = Some(0) =>
        /\ Len(tree) = 1 /\ tree[1].parent = 0 /\ tree[1].text = <<>>
        /\ stack = <<>> /\ pc /= "raised"
        /\ ret /= None => ret[1].size_used = 0

C2_Witness ==
    target = Some(0) /\ pc = "done" /\ RootIsComplex /\ Len(tree) = 1

\* C3: no node is made by a call deeper than 100: such a call returns 0 and
\* starts no container, so the recursion stops at the ceiling.
C3_DepthCeiling ==
    /\ \A j \in Made : tree[j].depth <= 100
    /\ \A k \in 1..Len(stack) : stack[k].depth <= 100
    /\ call /= None => call[1].depth <= 101
    /\ (ret /= None /\ ret[1].depth > 100) =>
            ret[1].size_used = 0 /\ ret[1].kind = "guard"

C3_Witness ==
    /\ ret /= None /\ ret[1].depth = 101 /\ ret[1].remaining_size > 0
    /\ Len(stack) = 101 /\ Len(tree) = 102

\* C4: a container made with remaining budget R chooses, and gets, at most
\* min(5, R div 50) children.
C4_BranchingBound ==
    /\ \A k \in 1..Len(stack) :
          stack[k].children_count <= Min(5, stack[k].remaining_size \div 50)
    /\ \A j \in Made :
          ~tree[j].leaf => Cardinality(Children(j)) <= Min(5, tree[j].budget \div 50)

C4_Witness ==
    \E k \in 1..Len(stack) :
        /\ stack[k].children_count >= 2
        /\ Cardinality(Children(stack[k].element)) = stack[k].children_count

C6_CheckNeverFatal ==
    /\ pc \in {"written", "done"} => written
    /\ checked /= None =>
          /\ pc = "done" /\ written /\ Len(messages) = 2
          /\ checked[1] = "valid" <=>
                messages[2] = "Generated XML is valid according to schema"
          /\ checked[1] = "DocumentInvalid" <=>
                messages[2] = "Warning: Generated XML is not valid"
          /\ checked[1] = "Exception" <=>
                messages[2] = "Error validating generated XML"

C6_Witness ==
    checked = Some("Exception") /\ pc = "done" /\ written /\ Len(tree) > 1

\* C7: a leaf's text comes from the generator registered for the local name
\* of its type tag, from the string generator for any other tag, and has
\* that type's lexical form.
C7_LeafDispatch ==
    \A j \in Made : tree[j].leaf =>
        LET tag == root_element[1].type
        IN  /\ \A n \in {"string", "integer", "decimal", "date", "dateTime",
                         "boolean", "anyURI"} :
                  LocalNameIs(tag, n) => HasForm(n, tree[j].text)
            /\ (\A n \in {"string", "integer", "decimal", "date", "dateTime",
                          "boolean", "anyURI"} : ~LocalNameIs(tag, n))
                  => HasForm("string", tree[j].text)

C7_Witness ==
    /\ pc = "done" /\ Len(tree) = 2 /\ tree[2].leaf
    /\ root_element[1].type = <<"xs", ":", "integer">>
    /\ tree[2].text = <<"-", "1", "0", "0", "0", "0", "0", "0">>

\* C8 as claimed: the k-th child's budget is what is left of remaining_size
\* after the tag overhead and children 1..k-1, divided by the number of
\* children not yet processed.
C8_SplitOverRemainingSiblings ==
    (call /= None /\ stack /= <<>>) =>
        call[1].remaining_size =
            (Top.remaining_size - (NameOverhead + Sum(Top.returns)))
                \div (Top.children_count - Len(Top.returns))

\* C8 as amended: ... divided by the container's whole children_count.
C8_SplitOverChildrenCount ==
    (call /= None /\ stack /= <<>>) =>
        /\ Len(Top.returns) = Top.i
        /\ call[1].depth = Top.depth + 1
        /\ call[1].remaining_size =
              (Top.remaining_size - (NameOverhead + Sum(Top.returns)))
                  \div Top.children_count

C8_Witness ==
    /\ call /= None /\ stack /= <<>>
    /\ Len(Top.returns) >= 1 /\ Sum(Top.returns) > 0
    /\ call[1].remaining_size > 0

\* C9 as claimed: every budget passed to a child call is >= 0.
C9_ChildBudgetNonNegative ==
    call /= None => call[1].remaining_size >= 0

\* C9 as amended: a budget passed to a child call can be negative; a child
\* whose budget is not positive returns 0 and makes no node, and so does
\* every later child of the same container.
C9_NonPositiveBudgetEmitsNothing ==
    /\ \A j \in Made : tree[j].budget > 0
    /\ \A k \in 1..Len(stack) :
          LET f == stack[k]
          IN  \A a \in 1..Len(f.budgets) : f.budgets[a] <= 0 =>
                /\ a <= Len(f.returns) => f.returns[a] = 0
                /\ \A b \in a..Len(f.budgets) : f.budgets[b] <= 0
    /\ (ret /= None /\ ret[1].remaining_size <= 0) => ret[1].size_used = 0

C9_Witness ==
    /\ stack /= <<>> /\ Len(Top.returns) >= 2
    /\ Top.budgets[1] < 0 /\ Top.budgets[2] < 0
    /\ Children(Top.element) = {}

\* C10 as claimed: a call never returns more bytes than its remaining_size.
C10_BudgetIsUpperBound ==
    ret /= None => ret[1].size_used <= ret[1].remaining_size

\* C10 as amended: a call stopped by the guard returns 0; a leaf returns
\* len(content) + 2*len(name) + 5 whatever its budget; a container returns
\* at least its own tag overhead 2*len(name) + 5 and at most remaining_size
\* plus that overhead.
C10_BytesUsedBounds ==
    ret /= None =>
        LET r == ret[1]
        IN  CASE r.kind = "guard" -> r.size_used = 0
              [] r.kind = "leaf" ->
                    r.size_used = Len(tree[Len(tree)].text) + NameOverhead
              [] r.kind = "complex" ->
                    /\ r.size_used >= NameOverhead
                    /\ r.size_used <= r.remaining_size + NameOverhead

C10_Witness ==
    /\ ret /= None /\ ret[1].kind = "complex"
    /\ ret[1].size_used > ret[1].remaining_size
    /\ Len(tree) >= 4

====
